---- MODULE Spec2Model ----
(***************************************************************************)
(* Call-history pipeline of the playground:                                *)
(*   - the API route handler /api/livekit/sessions (Fetch Gateway),        *)
(*   - CallHistoryPanel.fetchSessions (fetch + per-record normalization),  *)
(*   - the pure helpers formatDuration and deriveRecordingStatus.          *)
(*                                                                         *)
(* Text is modelled as a sequence of one-character strings, an optional    *)
(* value as a sequence of length 0 (undefined) or 1 (the value).           *)
(***************************************************************************)
EXTENDS Integers, Sequences, FiniteSets, TLC

VARIABLES
    pc,          \* position of the running operation
    input,       \* the arguments of the helper call being made
    output,      \* its result (None until it returns)
    env,         \* process.env seen by the handler
    req,         \* the inbound request of the handler
    token,       \* result of at.toJwt()
    sessionsUrl, \* the URL handed to fetch by the handler
    upstream,    \* the upstream's answer to the handler's fetch
    res,         \* the handler's response
    upstreamCalls, \* number of outbound fetch calls issued by the handler
    tokensMinted,  \* number of at.toJwt() calls
    panel        \* React state of CallHistoryPanel: sessions, isLoading, error

vars == <<pc, input, output, env, req, token, sessionsUrl, upstream, res,
          upstreamCalls, tokensMinted, panel>>

----------------------------------------------------------------------------
(* Bounds of the model *)

MaxHistory == 2
MaxTick == 3
TickSeconds == 1300
MaxHours == 2
MaxSessions == 2

(* Program constants *)

MsPerSecond == 1000
SecondsPerMinute == 60
MinutesPerHour == 60
BadGateway == 502

MsPerMinute == MsPerSecond * SecondsPerMinute
MsPerHour == MsPerMinute * MinutesPerHour
MsPerDay == MsPerHour * 24

----------------------------------------------------------------------------
(* Optional values and JavaScript truthiness *)

None == <<>>
Some(v) == <<v>>
IsSome(o) == Len(o) = 1
Get(o) == o[1]

\* `x ? a : b` / `x || d` on an optional number: undefined and 0 are falsy
TruthyNum(o) == IsSome(o) /\ Get(o) # 0
\* the same on an optional string: undefined and "" are falsy
TruthyStr(o) == IsSome(o) /\ Len(Get(o)) > 0
\* the same on an optional object (an ISO string is never empty)
TruthyObj(o) == IsSome(o)

Range(s) == {s[i] : i \in 1..Len(s)}

----------------------------------------------------------------------------
(* Number -> text, as a template literal renders an integer *)

DigitChar(d) ==
    CASE d = 0 -> "0" [] d = 1 -> "1" [] d = 2 -> "2" [] d = 3 -> "3" [] d = 4 -> "4"
      [] d = 5 -> "5" [] d = 6 -> "6" [] d = 7 -> "7" [] d = 8 -> "8" [] d = 9 -> "9"

RECURSIVE NatToStr(_)
NatToStr(n) == IF n < 10 THEN <<DigitChar(n)>>
               ELSE NatToStr(n \div 10) \o <<DigitChar(n % 10)>>

NumToStr(n) == IF n < 0 THEN <<"-">> \o NatToStr(0 - n) ELSE NatToStr(n)

----------------------------------------------------------------------------
(* Date: new Date(ms).toISOString() and new Date(iso).getTime().           *)
(* The ISO text is kept as its fields; the calendar date is the day count. *)

toISOString(ms) ==
    [day    |-> ms \div MsPerDay,
     hour   |-> (ms % MsPerDay) \div MsPerHour,
     minute |-> (ms % MsPerHour) \div MsPerMinute,
     second |-> (ms % MsPerMinute) \div MsPerSecond,
     milli  |-> ms % MsPerSecond]

getTime(iso) ==
    iso.day * MsPerDay + iso.hour * MsPerHour + iso.minute * MsPerMinute
      + iso.second * MsPerSecond + iso.milli

----------------------------------------------------------------------------
(* formatDuration *)

Ongoing == <<"O", "n", "g", "o", "i", "n", "g">>
ZeroMinutes == <<"0", "m">>

MinutesOfAllElapsed(diffMs, hours) == diffMs \div MsPerMinute

MinutesOfRemainder(diffMs, hours) == (diffMs - hours * MsPerHour) \div MsPerMinute

formatDuration(startIso, endIso) ==
    IF ~TruthyObj(endIso) THEN Ongoing
    ELSE LET diffMs == getTime(Get(endIso)) - getTime(startIso)
         IN  IF diffMs <= 0 THEN ZeroMinutes
             ELSE LET hours == diffMs \div MsPerHour
                      minutes == MinutesOfRemainder(diffMs, hours)
                  IN  IF hours > 0
                      THEN NumToStr(hours) \o <<"h", " ">> \o NumToStr(minutes) \o <<"m">>
                      ELSE NumToStr(minutes) \o <<"m">>

----------------------------------------------------------------------------
(* deriveRecordingStatus *)

KnownStatusCodes ==
    {"EGRESS_COMPLETE", "EGRESS_STARTING", "EGRESS_ACTIVE", "EGRESS_ENDING",
     "EGRESS_FAILED", "EGRESS_ABORTED", "EGRESS_LIMIT_REACHED"}
StatusCodes == KnownStatusCodes \cup {"EGRESS_PAUSED"}

latestEgressFirst(egress_info) == egress_info[1]

latestEgress(egress_info) == egress_info[Len(egress_info)]

\* session.egress_info is optional: None, or Some(sequence of status codes)
deriveRecordingStatus(session) ==
    IF IsSome(session.egress_info) /\ Len(Get(session.egress_info)) > 0
    THEN LET status == latestEgress(Get(session.egress_info))
         IN  CASE status = "EGRESS_COMPLETE" -> "available"
               [] status \in {"EGRESS_STARTING", "EGRESS_ACTIVE", "EGRESS_ENDING"} -> "processing"
               [] status \in {"EGRESS_FAILED", "EGRESS_ABORTED", "EGRESS_LIMIT_REACHED"} -> "failed"
               [] OTHER -> "none"
    ELSE "none"

----------------------------------------------------------------------------
(* The map callback of fetchSessions: one LivekitSession -> one CallSession. *)
(* `now` is what new Date() reads when the callback runs.                    *)

resolvedStartSeconds(session) ==
    IF TruthyNum(session.start_time) THEN Get(session.start_time) ELSE session.created_at

resolvedEndIso(session) ==
    IF TruthyNum(session.end_time)
    THEN Some(toISOString(Get(session.end_time) * MsPerSecond))
    ELSE None

processSession(session, now) ==
    LET startTimeIso == toISOString(resolvedStartSeconds(session) * MsPerSecond)
        endTimeIso == resolvedEndIso(session)
    IN  [id               |-> session.session_id,
         roomName         |-> session.name,
         startTime        |-> startTimeIso,
         endTime          |-> IF TruthyObj(endTimeIso) THEN Get(endTimeIso) ELSE toISOString(now),
         duration         |-> formatDuration(startTimeIso, endTimeIso),
         participantCount |-> IF TruthyNum(session.num_participants)
                              THEN Get(session.num_participants) ELSE 0,
         recordingStatus  |-> deriveRecordingStatus(session)]

----------------------------------------------------------------------------
(* Input domains *)

Histories == UNION {[1..n -> StatusCodes] : n \in 0..MaxHistory}

HourSteps == 0..MaxHours
Instants ==
    {b + h * MsPerHour + m * MsPerMinute + c :
        b \in {0, MsPerDay - MsPerHour}, h \in HourSteps, m \in {0, 5, 59}, c \in {0, 1, 59999}}

Seconds == {k * TickSeconds : k \in 0..MaxTick}
OptSeconds == {None} \cup {Some(t) : t \in Seconds}
ClockReadings == {k * TickSeconds * MsPerSecond + 7 : k \in 0..MaxTick}

RawSessions ==
    [session_id : {"RM_1"}, name : {"room"},
     created_at : Seconds, start_time : OptSeconds, end_time : OptSeconds,
     num_participants : {None, Some(0), Some(3)},
     egress_info : {None, Some(<<>>), Some(<<"EGRESS_FAILED", "EGRESS_COMPLETE">>)}]

----------------------------------------------------------------------------
(* Idle values of the parts a run does not use *)

NoRequest == [method |-> "none"]
NoResponse == [status |-> 0, body |-> [kind |-> "none"]]
NoUpstream == [kind |-> "none"]
PanelInitial == [sessions |-> <<>>, isLoading |-> TRUE, error |-> None]

GatewayIdle ==
    /\ env = [apiKey |-> None, apiSecret |-> None, projectId |-> None, baseUrl |-> None]
    /\ req = NoRequest
    /\ token = None
    /\ sessionsUrl = None
    /\ upstream = NoUpstream
    /\ res = NoResponse
    /\ upstreamCalls = 0
    /\ tokensMinted = 0
    /\ panel = PanelInitial

GatewayUnchanged ==
    UNCHANGED <<env, req, token, sessionsUrl, upstream, res, upstreamCalls, tokensMinted, panel>>

----------------------------------------------------------------------------
(* Helper calls *)

InitResolver ==
    /\ pc = "call"
    /\ input \in {[egress_info |-> e] : e \in {None} \cup {Some(h) : h \in Histories}}
    /\ output = None
    /\ GatewayIdle

CallDeriveRecordingStatus ==
    /\ pc = "call"
    /\ output' = Some(deriveRecordingStatus(input))
    /\ pc' = "returned"
    /\ UNCHANGED input
    /\ GatewayUnchanged

SpecResolver == InitResolver /\ [][CallDeriveRecordingStatus]_vars

InitFormat ==
    /\ pc = "call"
    /\ input \in [startMs : Instants, endMs : {None} \cup {Some(t) : t \in Instants}]
    /\ output = None
    /\ GatewayIdle

\* the caller hands formatDuration ISO strings made by toISOString (call site: processSession)
CallFormatDuration ==
    /\ pc = "call"
    /\ output' = Some(formatDuration(
                     toISOString(input.startMs),
                     IF IsSome(input.endMs) THEN Some(toISOString(Get(input.endMs))) ELSE None))
    /\ pc' = "returned"
    /\ UNCHANGED input
    /\ GatewayUnchanged

SpecFormat == InitFormat /\ [][CallFormatDuration]_vars

InitNormalize ==
    /\ pc = "call"
    /\ input \in [session : RawSessions, now : ClockReadings]
    /\ output = None
    /\ GatewayIdle

CallProcessSession ==
    /\ pc = "call"
    /\ output' = Some(processSession(input.session, input.now))
    /\ pc' = "returned"
    /\ UNCHANGED input
    /\ GatewayUnchanged

SpecNormalize == InitNormalize /\ [][CallProcessSession]_vars

----------------------------------------------------------------------------
(* URLSearchParams: append and toString (application/x-www-form-urlencoded). *)
(* Characters outside this table are letters, digits or one of * - . _ and   *)
(* are written as they are.                                                  *)

FormEncodeCharRaw(c) == <<c>>

FormEncodeChar(c) ==
    CASE c = " " -> <<"+">>
      [] c = "&" -> <<"%", "2", "6">>
      [] c = "=" -> <<"%", "3", "D">>
      [] c = "%" -> <<"%", "2", "5">>
      [] c = "+" -> <<"%", "2", "B">>
      [] c = "?" -> <<"%", "3", "F">>
      [] OTHER   -> <<c>>

RECURSIVE FormEncode(_)
FormEncode(text) ==
    IF text = <<>> THEN <<>> ELSE FormEncodeChar(Head(text)) \o FormEncode(Tail(text))

\* URLSearchParams.toString() of a list of <<name, value>> pairs
RECURSIVE SearchParamsToString(_)
SearchParamsToString(params) ==
    IF params = <<>> THEN <<>>
    ELSE LET first == FormEncode(params[1][1]) \o <<"=">> \o FormEncode(params[1][2])
         IN  IF Len(params) = 1 THEN first
             ELSE first \o <<"&">> \o SearchParamsToString(Tail(params))

----------------------------------------------------------------------------
(* The API route handler *)

FilterNames == <<"limit", "page", "start_date", "end_date", "room_name">>

KeyText(name) ==
    CASE name = "limit"      -> <<"l", "i", "m", "i", "t">>
      [] name = "page"       -> <<"p", "a", "g", "e">>
      [] name = "start_date" -> <<"s", "t", "a", "r", "t", "_", "d", "a", "t", "e">>
      [] name = "end_date"   -> <<"e", "n", "d", "_", "d", "a", "t", "e">>
      [] name = "room_name"  -> <<"r", "o", "o", "m", "_", "n", "a", "m", "e">>

\* `if (incomingQuery.x)`: only a defined, non-empty value is appended
ForwardWhenTruthy(value) == TruthyStr(value)

\* lines 148-153: the appends, in source order
RECURSIVE AppendFilters(_, _)
AppendFilters(query, i) ==
    IF i > Len(FilterNames) THEN <<>>
    ELSE (IF ForwardWhenTruthy(query[FilterNames[i]])
          THEN << <<KeyText(FilterNames[i]), Get(query[FilterNames[i]])>> >>
          ELSE <<>>) \o AppendFilters(query, i + 1)

DefaultApiBase == "https://cloud-api.livekit.io"

BuildSessionsUrl(e, query) ==
    LET livekitApiBase == IF TruthyStr(e.baseUrl) THEN Get(e.baseUrl) ELSE <<DefaultApiBase>>
        search == SearchParamsToString(AppendFilters(query, 1))
        projectId == IF IsSome(e.projectId) THEN Get(e.projectId) ELSE <<"undefined">>
    IN  livekitApiBase \o <<"/api/project/">> \o projectId \o <<"/sessions">>
          \o (IF search # <<>> THEN <<"?">> \o search ELSE <<>>)

MissingCredentialsButProject(e) == ~TruthyStr(e.apiKey) \/ ~TruthyStr(e.apiSecret)

MissingCredentials(e) ==
    ~TruthyStr(e.apiKey) \/ ~TruthyStr(e.apiSecret) \/ ~TruthyStr(e.projectId)

IsOk(status) == status >= 200 /\ status <= 299

UpstreamErrorStatusAlwaysOk(status) == 200

\* `livekitResponse.status || 502`
UpstreamErrorStatus(status) == IF status # 0 THEN status ELSE BadGateway

ErrorBody(error, details) == [kind |-> "error", error |-> error, details |-> details]
JsonBody(value) == [kind |-> "json", value |-> value]

\* lines 120-141: from entry to the first await (at.toJwt())
HandlerEntry(method, query) ==
    /\ req' = [method |-> method, query |-> query]
    /\ IF method # "GET"
       THEN /\ res' = [status |-> 405, body |-> ErrorBody("Method Not Allowed", None)]
            /\ pc' = "responded"
            /\ UNCHANGED tokensMinted
       ELSE IF MissingCredentials(env)
       THEN /\ res' = [status |-> 500, body |-> ErrorBody("Server configuration error", None)]
            /\ pc' = "responded"
            /\ UNCHANGED tokensMinted
       ELSE /\ tokensMinted' = tokensMinted + 1
            /\ pc' = "awaitToken"
            /\ UNCHANGED res
    /\ UNCHANGED <<input, output, env, token, sessionsUrl, upstream, upstreamCalls, panel>>

\* lines 141-167: at.toJwt() settles; on success the URL is built and fetch is called
Handler_TokenSettled ==
    /\ pc = "awaitToken"
    /\ \E minted \in BOOLEAN :
         IF minted
         THEN /\ token' = Some("jwt")
              /\ sessionsUrl' = Some(BuildSessionsUrl(env, req.query))
              /\ upstreamCalls' = upstreamCalls + 1
              /\ pc' = "awaitFetch"
              /\ UNCHANGED res
         ELSE /\ res' = [status |-> 500, body |-> ErrorBody("Internal server error", Some("toJwt failed"))]
              /\ pc' = "responded"
              /\ UNCHANGED <<token, sessionsUrl, upstreamCalls>>
    /\ UNCHANGED <<input, output, env, req, upstream, tokensMinted, panel>>

\* lines 169-185: what the handler answers once fetch has settled
HandlerAnswer(answer) ==
    IF answer.kind = "rejected"
    THEN [status |-> 500, body |-> ErrorBody("Internal server error", Some("fetch failed"))]
    ELSE IF ~IsOk(answer.status)
    THEN [status |-> UpstreamErrorStatus(answer.status),
          body |-> ErrorBody("Failed to fetch sessions from LiveKit", Some("LiveKit API responded with status"))]
    ELSE IF ~IsSome(answer.json)
    THEN [status |-> 500, body |-> ErrorBody("Internal server error", Some("Unexpected token"))]
    ELSE [status |-> 200, body |-> JsonBody(Get(answer.json))]

----------------------------------------------------------------------------
(* What the upstream can answer *)

SessionPool ==
    {[session_id |-> "RM_1", name |-> "room", created_at |-> TickSeconds,
      start_time |-> None, end_time |-> None, num_participants |-> None,
      egress_info |-> None],
     [session_id |-> "RM_2", name |-> "room", created_at |-> 0,
      start_time |-> Some(TickSeconds), end_time |-> Some(MaxTick * TickSeconds),
      num_participants |-> Some(3), egress_info |-> Some(<<"EGRESS_COMPLETE">>)],
     [session_id |-> "RM_3", name |-> "lobby", created_at |-> TickSeconds,
      start_time |-> Some(TickSeconds), end_time |-> Some(0),
      num_participants |-> Some(0), egress_info |-> Some(<<"EGRESS_ACTIVE">>)]}

SessionLists == UNION {[1..n -> SessionPool] : n \in 0..MaxSessions}

\* the documented body { sessions: [...] }, an object without `sessions`, a bare array
JsonValues ==
    {[kind |-> "object", sessions |-> Some(l)] : l \in SessionLists}
      \cup {[kind |-> "object", sessions |-> None]}
      \cup {[kind |-> "array", items |-> l] : l \in SessionLists}

UpstreamAnswers ==
    {[kind |-> "rejected"]}
      \cup {[kind |-> "response", status |-> 200, json |-> j] :
               j \in {None} \cup {Some(v) : v \in JsonValues}}
      \cup {[kind |-> "response", status |-> s, json |-> None] : s \in {0, 204, 404, 500}}

\* lines 160-185: fetch settles and the handler responds; nothing is re-issued
Handler_FetchSettled ==
    /\ pc = "awaitFetch"
    /\ \E answer \in UpstreamAnswers :
         /\ upstream' = answer
         /\ res' = HandlerAnswer(answer)
    /\ pc' = "responded"
    /\ UNCHANGED <<input, output, env, req, token, sessionsUrl, upstreamCalls, tokensMinted, panel>>

EnvValues == {None, Some(<<>>), Some(<<"p", "1">>)}
Environments ==
    [apiKey : EnvValues, apiSecret : EnvValues, projectId : EnvValues,
     baseUrl : {None, Some(<<"http://lk.local">>)}]

QueryValues ==
    {None, Some(<<>>), Some(<<"2", "0">>), Some(<<"a", " ", "&", "b", "=", "%", "+", "?">>)}
Queries == [{FilterNames[i] : i \in 1..Len(FilterNames)} -> QueryValues]
NoFilters == [n \in {FilterNames[i] : i \in 1..Len(FilterNames)} |-> None]

InitGateway ==
    /\ pc = "idle"
    /\ input = None
    /\ output = None
    /\ env \in Environments
    /\ req = NoRequest
    /\ token = None
    /\ sessionsUrl = None
    /\ upstream = NoUpstream
    /\ res = NoResponse
    /\ upstreamCalls = 0
    /\ tokensMinted = 0
    /\ panel = PanelInitial

\* any client calls the route
Handler_Invoked ==
    /\ pc = "idle"
    /\ \E method \in {"GET", "POST"}, query \in Queries : HandlerEntry(method, query)

NextGateway == Handler_Invoked \/ Handler_TokenSettled \/ Handler_FetchSettled

SpecGateway == InitGateway /\ [][NextGateway]_vars

----------------------------------------------------------------------------
(* Claims about the helpers *)

\* the classification table of the recording-status resolver, per status code
ClassOfCode(c) ==
    IF c = "EGRESS_COMPLETE" THEN "available"
    ELSE IF c = "EGRESS_STARTING" \/ c = "EGRESS_ACTIVE" \/ c = "EGRESS_ENDING" THEN "processing"
    ELSE IF c = "EGRESS_FAILED" \/ c = "EGRESS_ABORTED" \/ c = "EGRESS_LIMIT_REACHED" THEN "failed"
    ELSE "none"

\* C1: deriveRecordingStatus returns 'none' for an absent or empty history and
\* otherwise the classification of the last element only; two histories with the
\* same last status code resolve to the same result whatever their earlier entries.
C1_LatestAttemptDecides ==
    (pc = "returned") =>
        LET e == input.egress_info
        IN  /\ (~IsSome(e) \/ Get(e) = <<>>) => output = Some("none")
            /\ (IsSome(e) /\ Get(e) # <<>>) =>
                  /\ output = Some(ClassOfCode(Get(e)[Len(Get(e))]))
                  /\ \A h \in Histories :
                        (h # <<>> /\ h[Len(h)] = Get(e)[Len(Get(e))]) =>
                            deriveRecordingStatus([egress_info |-> Some(h)]) = Get(output)

\* a history whose earlier attempt failed and whose last attempt completed: 'available'
C1_Witness ==
    /\ pc = "returned"
    /\ input.egress_info = Some(<<"EGRESS_FAILED", "EGRESS_COMPLETE">>)
    /\ output = Some("available")

\* C2: with a present end, formatDuration returns "0m" when end - start <= 0 and
\* otherwise "Hh Mm" (H > 0) or "Mm" (H = 0) with H whole hours and M the whole
\* minutes left, 0 <= M <= 59; 65 minutes gives "1h 5m", 2 hours "2h 0m"; the
\* result never holds a minus sign.
C2_DurationFormat ==
    (pc = "returned" /\ IsSome(input.endMs)) =>
        LET elapsed == Get(input.endMs) - input.startMs
            text == Get(output)
        IN  /\ elapsed <= 0 => text = <<"0", "m">>
            /\ elapsed > 0 =>
                  \E H \in 0..(elapsed \div MsPerHour), M \in 0..59 :
                     /\ H * MsPerHour + M * MsPerMinute <= elapsed
                     /\ elapsed < H * MsPerHour + (M + 1) * MsPerMinute
                     /\ text = IF H > 0
                               THEN NatToStr(H) \o <<"h", " ">> \o NatToStr(M) \o <<"m">>
                               ELSE NatToStr(M) \o <<"m">>
            /\ elapsed = 65 * MsPerMinute => text = <<"1", "h", " ", "5", "m">>
            /\ elapsed = 2 * MsPerHour => text = <<"2", "h", " ", "0", "m">>
            /\ "-" \notin Range(text)

\* 1 hour 59 minutes and some seconds elapsed, across a day boundary
C2_Witness ==
    /\ pc = "returned"
    /\ IsSome(input.endMs)
    /\ input.startMs < MsPerDay
    /\ Get(input.endMs) > MsPerDay
    /\ output = Some(<<"1", "h", " ", "5", "9", "m">>)

\* C3: the normalized duration is "Ongoing" if and only if raw.end_time is absent
\* (end_time over absent and every non-negative number of seconds); with end_time
\* present the duration is the formatted elapsed time and the emitted end is end_time,
\* with it absent the emitted end is the current instant.
C3_OngoingIffEndAbsent ==
    (pc = "returned") =>
        LET raw == input.session
            out == Get(output)
        IN  /\ (out.duration = Ongoing) <=> ~IsSome(raw.end_time)
            /\ IsSome(raw.end_time) =>
                  /\ getTime(out.endTime) = Get(raw.end_time) * MsPerSecond
                  /\ out.duration = formatDuration(out.startTime, Some(out.endTime))
            /\ ~IsSome(raw.end_time) => getTime(out.endTime) = input.now

\* C4: the resolved start equals raw.start_time whenever start_time is present
\* (every non-negative number of seconds), and raw.created_at only when it is absent.
C4_StartTimeWhenPresent ==
    (pc = "returned") =>
        LET raw == input.session
            out == Get(output)
        IN  /\ IsSome(raw.start_time) =>
                  getTime(out.startTime) = Get(raw.start_time) * MsPerSecond
            /\ ~IsSome(raw.start_time) =>
                  getTime(out.startTime) = raw.created_at * MsPerSecond

\* C5: every canonical session has endInstant >= startInstant unless its duration is
\* "0m" because the elapsed time between start and a present end is <= 0.
C5_EndNotBeforeStart ==
    (pc = "returned") =>
        LET raw == input.session
            out == Get(output)
            degenerate == /\ IsSome(raw.end_time)
                          /\ out.duration = <<"0", "m">>
                          /\ Get(raw.end_time) * MsPerSecond - getTime(out.startTime) <= 0
        IN  getTime(out.endTime) >= getTime(out.startTime) \/ degenerate

----------------------------------------------------------------------------
(* Reading a query string back, as the receiver of the URL does *)

HexPairChar(h1, h2) ==
    CASE h1 = "2" /\ h2 = "0" -> " "
      [] h1 = "2" /\ h2 = "6" -> "&"
      [] h1 = "3" /\ h2 = "D" -> "="
      [] h1 = "2" /\ h2 = "5" -> "%"
      [] h1 = "2" /\ h2 = "B" -> "+"
      [] h1 = "3" /\ h2 = "F" -> "?"
      [] OTHER -> "invalid"

RECURSIVE FormDecode(_)
FormDecode(text) ==
    IF text = <<>> THEN <<>>
    ELSE IF Head(text) = "+" THEN <<" ">> \o FormDecode(Tail(text))
    ELSE IF Head(text) = "%" /\ Len(text) >= 3
         THEN <<HexPairChar(text[2], text[3])>> \o FormDecode(SubSeq(text, 4, Len(text)))
    ELSE <<Head(text)>> \o FormDecode(Tail(text))

\* index of the first `sep` in text, 0 when there is none
FirstIndex(text, sep) ==
    IF sep \in Range(text) THEN CHOOSE i \in 1..Len(text) :
                                    text[i] = sep /\ \A j \in 1..(i - 1) : text[j] # sep
    ELSE 0

RECURSIVE SplitOn(_, _)
SplitOn(text, sep) ==
    LET i == FirstIndex(text, sep)
    IN  IF i = 0 THEN <<text>>
        ELSE <<SubSeq(text, 1, i - 1)>> \o SplitOn(SubSeq(text, i + 1, Len(text)), sep)

ParsePair(segment) ==
    LET i == FirstIndex(segment, "=")
    IN  IF i = 0 THEN <<FormDecode(segment), <<>> >>
        ELSE <<FormDecode(SubSeq(segment, 1, i - 1)),
               FormDecode(SubSeq(segment, i + 1, Len(segment)))>>

ParseQuery(search) ==
    IF search = <<>> THEN <<>>
    ELSE LET segments == SplitOn(search, "&")
         IN  [k \in 1..Len(segments) |-> ParsePair(segments[k])]

\* the part of a URL after its first "?" (empty when it has none)
SearchOf(url) ==
    LET i == FirstIndex(url, "?")
    IN  IF i = 0 THEN <<>> ELSE SubSeq(url, i + 1, Len(url))

----------------------------------------------------------------------------
(* Claims about the handler *)

FilterSet == {FilterNames[i] : i \in 1..Len(FilterNames)}

\* the upstream answered 2xx with a body of the documented shape { sessions: [...] }
UpstreamDelivered ==
    /\ upstream.kind = "response"
    /\ IsOk(upstream.status)
    /\ IsSome(upstream.json)
    /\ Get(upstream.json).kind = "object"
    /\ IsSome(Get(upstream.json).sessions)

\* C8: every path through the handler that ends in a failure (method not allowed,
\* missing key / secret / project id, token minting failure, transport failure,
\* upstream non-2xx, undecodable body) answers non-2xx with a `details` string.
C8_EveryFailureHasDetails ==
    (pc = "responded" /\ ~UpstreamDelivered) =>
        /\ ~IsOk(res.status)
        /\ res.body.kind = "error"
        /\ IsSome(res.body.details)

\* C9: the upstream query string holds a filter's key exactly when that filter is
\* present with a non-empty value, with the caller's value unchanged; it holds no
\* empty value and no other key, and the URL has no "?" when nothing is forwarded.
C9_FiltersForwardedVerbatim ==
    IsSome(sessionsUrl) =>
        LET url == Get(sessionsUrl)
            pairs == ParseQuery(SearchOf(url))
            forwarded == {f \in FilterSet :
                            IsSome(req.query[f]) /\ Get(req.query[f]) # <<>>}
        IN  /\ \A f \in FilterSet :
                 Cardinality({k \in 1..Len(pairs) : pairs[k][1] = KeyText(f)})
                    = IF f \in forwarded THEN 1 ELSE 0
            /\ \A f \in forwarded :
                 \E k \in 1..Len(pairs) : pairs[k] = <<KeyText(f), Get(req.query[f])>>
            /\ \A k \in 1..Len(pairs) :
                 /\ pairs[k][2] # <<>>
                 /\ \E f \in FilterSet : pairs[k][1] = KeyText(f)
            /\ Len(pairs) = Cardinality(forwarded)
            /\ (forwarded = {}) <=> ("?" \notin Range(url))

\* one filter empty, one absent, one plain, one with reserved characters
C9_Witness ==
    /\ IsSome(sessionsUrl)
    /\ req.query["limit"] = Some(<<"2", "0">>)
    /\ req.query["page"] = Some(<<>>)
    /\ req.query["start_date"] = None
    /\ req.query["room_name"] = Some(<<"a", " ", "&", "b", "=", "%", "+", "?">>)
    /\ "?" \in Range(Get(sessionsUrl))

CredentialAbsent(e) ==
    \E v \in {e.apiKey, e.apiSecret, e.projectId} : v = None \/ v = Some(<<>>)

\* C10: one invocation issues at most one upstream request: none (and no token) when
\* the method is not GET or a credential is missing, exactly one when the token is
\* minted; a failed or non-2xx request is never issued again.
C10_AtMostOneUpstreamCall ==
    /\ upstreamCalls <= 1
    /\ tokensMinted <= 1
    /\ (req.method # "none" /\ (req.method # "GET" \/ CredentialAbsent(env))) =>
          (upstreamCalls = 0 /\ tokensMinted = 0)
    /\ (req.method = "GET" /\ ~CredentialAbsent(env) /\ IsSome(token)) => upstreamCalls = 1
    /\ (pc = "responded" /\ upstream.kind # "none") => upstreamCalls = 1

\* the upstream answered 500 and the handler has responded after a single request
C10_Witness ==
    /\ pc = "responded"
    /\ upstream.kind = "response"
    /\ upstream.status = 500
    /\ upstreamCalls = 1
    /\ res.status = 500

----------------------------------------------------------------------------
(* CallHistoryPanel: one fetch cycle against the route *)

\* lines 89-92: the effect runs fetchSessions, which resets the state and calls fetch
Panel_Mount ==
    /\ pc = "idle"
    /\ panel' = [panel EXCEPT !.isLoading = TRUE, !.error = None]
    /\ pc' = "panelFetching"
    /\ UNCHANGED <<input, output, env, req, token, sessionsUrl, upstream, res,
                   upstreamCalls, tokensMinted>>

\* the route is called with GET and no query string (line 92)
Route_Invoked ==
    /\ pc = "panelFetching"
    /\ HandlerEntry("GET", NoFilters)

\* line 92 rejects (the request never reaches the route), lines 114-123
Panel_FetchRejected ==
    /\ pc = "panelFetching"
    /\ panel' = [panel EXCEPT !.error = Some("Failed to fetch"), !.isLoading = FALSE]
    /\ pc' = "settled"
    /\ UNCHANGED <<input, output, env, req, token, sessionsUrl, upstream, res,
                   upstreamCalls, tokensMinted>>

\* new Date() never runs backwards from one callback to the next
ClockRuns(n) ==
    {c \in [1..n -> ClockReadings] : \A i \in 1..n, j \in 1..n : i <= j => c[i] <= c[j]}

\* line 93: response.ok
ResponseOk(status) == IsOk(status)

\* lines 93-123: the route's response arrives
Panel_ResponseArrived ==
    /\ pc = "responded"
    /\ IF ~ResponseOk(res.status)
       THEN panel' = [panel EXCEPT !.error = Some("Failed to fetch sessions"),
                                   !.isLoading = FALSE]
       ELSE IF res.body.kind = "json" /\ res.body.value.kind = "array"
       THEN LET data == res.body.value.items
            IN  \E clock \in ClockRuns(Len(data)) :
                   panel' = [panel EXCEPT
                               !.sessions = [i \in 1..Len(data) |-> processSession(data[i], clock[i])],
                               !.isLoading = FALSE]
       ELSE panel' = [panel EXCEPT !.error = Some("data.map is not a function"),
                                   !.isLoading = FALSE]
    /\ pc' = "settled"
    /\ UNCHANGED <<input, output, env, req, token, sessionsUrl, upstream, res,
                   upstreamCalls, tokensMinted>>

NextCycle ==
    \/ Panel_Mount
    \/ Route_Invoked
    \/ Panel_FetchRejected
    \/ Handler_TokenSettled
    \/ Handler_FetchSettled
    \/ Panel_ResponseArrived

SpecCycle == InitGateway /\ [][NextCycle]_vars

----------------------------------------------------------------------------
(* Claims about the fetch cycle *)

\* C6: when the upstream answers 2xx with a list of n raw sessions, the panel ends
\* the cycle without an error and with exactly n canonical sessions, the i-th being
\* the normalization of the i-th raw session.
C6_CycleKeepsEverySession ==
    (pc = "settled" /\ UpstreamDelivered) =>
        LET raw == Get(Get(upstream.json).sessions)
        IN  /\ panel.error = None
            /\ ~panel.isLoading
            /\ Len(panel.sessions) = Len(raw)
            /\ \A i \in 1..Len(raw) :
                 \E now \in ClockReadings : panel.sessions[i] = processSession(raw[i], now)

====
